---- MODULE Spec2Model ----
(***************************************************************************)
(* web3-sign: a sign-in token is the base64 of a JSON envelope             *)
(* {signature, body}; body is a line-oriented canonical message rendered   *)
(* from claims.  This module models sign (validate_params, process_params, *)
(* build_message, the signer capability, the envelope), decrypt and verify *)
(* (envelope, get_version, address recovery, parse_body, the temporal and  *)
(* domain checks) and the timespan resolver (ms, timespan).                *)
(*                                                                         *)
(* Text is modelled by TLA+ strings, character by character: Len, \o and   *)
(* SubSeq are the only primitives used on them.  Python values are tagged  *)
(* records (PyStr, PyInt, ...); a dict key that is not set maps to Absent. *)
(* Instants are integer milliseconds on the process clock.                 *)
(***************************************************************************)
EXTENDS Integers, Sequences, FiniteSets, TLC

VARIABLES
    now,            \* the process clock, datetime.now(), in milliseconds
    ts_pc,          \* timespan(val): "idle" | "returned" | "raised"
    ts_val,         \* its argument
    ts_ms,          \* what ms(val) returned, when val is a string
    ts_result,      \* the datetime it returned, or the error it raised
    sign_pc,        \* sign(signer, opts): the statement sign() is at
    sign_params,    \* params, after the str -> {'expires_in': opts} rewrite
    sign_body,      \* body = process_params(params)
    sign_msg,       \* msg = build_message(body)
    sign_sig,       \* signature = await signer(msg)
    sign_token,     \* the token returned
    sign_err,       \* the error raised
    signer_calls,   \* the messages the signer capability was invoked with
    ledger,         \* the signatures the signer capability has produced
    v_pc,           \* verify(token, opts) / decrypt(token): the statement it is at
    v_entry,        \* "verify" | "decrypt": the entry point called
    v_token,        \* the token argument
    v_opts,         \* the opts argument
    v_dec,          \* decrypted: what decrypt(token) returned
    v_parsed,       \* parsed_body
    v_reads,        \* the clock values verify has read, in order
    v_reached,      \* the stages of decrypt / verify evaluated so far, in order
    v_err,          \* the error raised
    v_result,       \* the value returned
    pb              \* parse_body(lines): its argument and what it and its helpers made of it

tsVars     == <<ts_pc, ts_val, ts_ms, ts_result>>
signVars   == <<sign_pc, sign_params, sign_body, sign_msg, sign_sig, sign_token,
                sign_err, signer_calls, ledger>>
verifyVars == <<v_pc, v_entry, v_token, v_opts, v_dec, v_parsed, v_reads,
                v_reached, v_err, v_result>>
vars       == <<now, tsVars, signVars, verifyVars, pb>>

(***************************************************************************)
(* Bounds of the model.                                                    *)
(***************************************************************************)
\* the longest duration expression handed to ms / timespan
MaxLen == 3
\* the last clock value (milliseconds) the model lets the clock reach
MaxClock == 1
\* the longest sequence of lines the body parsers are handed
MaxLines == 4
\* the largest number a duration expression handed to ms / timespan starts with
MaxNumber == 22

(***************************************************************************)
(* Python str operations, on TLA+ strings.                                 *)
(***************************************************************************)
Char(s, i) == SubSeq(s, i, i)

Drop(s, n) == SubSeq(s, n + 1, Len(s))

StartsWith(s, p) == Len(p) <= Len(s) /\ SubSeq(s, 1, Len(p)) = p

EndsWith(s, p) == Len(p) <= Len(s) /\ SubSeq(s, Len(s) - Len(p) + 1, Len(s)) = p

OccursAt(s, sub, i) == i + Len(sub) - 1 <= Len(s) /\ SubSeq(s, i, i + Len(sub) - 1) = sub

\* the least member of a non-empty set of positions; 0 for the empty set
First(found) == IF found = {} THEN 0 ELSE CHOOSE k \in found : \A j \in found : k <= j

\* the first position >= i where sub occurs in s; 0 when there is none
FindFrom(s, sub, i) ==
    First({k \in i..(Len(s) - Len(sub) + 1) : SubSeq(s, k, k + Len(sub) - 1) = sub})

\* str.find, 1-based; 0 when sub does not occur
Find(s, sub) == FindFrom(s, sub, 1)

\* the `in` operator on str, for a non-empty sub
Contains(s, sub) == Find(s, sub) # 0

RECURSIVE Split(_, _)
\* str.split(sep)
Split(s, sep) ==
    IF ~Contains(s, sep) THEN <<s>>
    ELSE <<SubSeq(s, 1, Find(s, sep) - 1)>> \o Split(Drop(s, Find(s, sep) + Len(sep) - 1), sep)

RECURSIVE Join(_, _)
\* sep.join(parts)
Join(parts, sep) ==
    IF parts = <<>> THEN ""
    ELSE IF Len(parts) = 1 THEN parts[1]
    ELSE parts[1] \o sep \o Join(Tail(parts), sep)

RECURSIVE Replace(_, _, _)
\* str.replace(old, new): every non-overlapping occurrence, left to right
Replace(s, old, new) ==
    IF ~Contains(s, old) THEN s
    ELSE SubSeq(s, 1, Find(s, old) - 1) \o new
            \o Replace(Drop(s, Find(s, old) + Len(old) - 1), old, new)

Whitespace == {" ", "\t", "\n", "\r"}

RECURSIVE LStrip(_)
LStrip(s) == IF Len(s) > 0 /\ Char(s, 1) \in Whitespace THEN LStrip(Drop(s, 1)) ELSE s

RECURSIVE RStrip(_)
RStrip(s) ==
    IF Len(s) > 0 /\ Char(s, Len(s)) \in Whitespace
    THEN RStrip(SubSeq(s, 1, Len(s) - 1)) ELSE s

\* str.strip()
Strip(s) == LStrip(RStrip(s))

UpperLetters == "ABCDEFGHIJKLMNOPQRSTUVWXYZ"
LowerLetters == "abcdefghijklmnopqrstuvwxyz"
Digits       == "0123456789"

IsDigit(c)  == \E i \in 1..10 : Char(Digits, i) = c
IsLower(c)  == \E i \in 1..26 : Char(LowerLetters, i) = c
IsUpper(c)  == \E i \in 1..26 : Char(UpperLetters, i) = c
IsLetter(c) == IsLower(c) \/ IsUpper(c)

LowerChar(c) == IF IsUpper(c) THEN Char(LowerLetters, Find(UpperLetters, c)) ELSE c

RECURSIVE Lower(_)
\* str.lower()
Lower(s) == IF s = "" THEN "" ELSE LowerChar(Char(s, 1)) \o Lower(Drop(s, 1))

RECURSIVE ParseInt(_)
\* int(s) of a run of decimal digits
ParseInt(s) ==
    IF s = "" THEN 0
    ELSE 10 * ParseInt(SubSeq(s, 1, Len(s) - 1)) + (Find(Digits, Char(s, Len(s))) - 1)

RECURSIVE ToStr(_)
\* str(n) of a non-negative int
ToStr(n) ==
    IF n < 10 THEN Char(Digits, n + 1)
    ELSE ToStr(n \div 10) \o Char(Digits, (n % 10) + 1)

\* n rendered in at least w digits, zero-padded on the left (the %02d of isoformat)
RECURSIVE Pad(_, _)
Pad(n, w) == IF Len(ToStr(n)) >= w THEN ToStr(n) ELSE "0" \o Pad(n, w - 1)

\* the length of the longest prefix of s made of decimal digits
RECURSIVE DigitRun(_)
DigitRun(s) == IF Len(s) > 0 /\ IsDigit(Char(s, 1)) THEN 1 + DigitRun(Drop(s, 1)) ELSE 0

(***************************************************************************)
(* Python values.                                                          *)
(***************************************************************************)
PyStr(s)      == [t |-> "str", s |-> s, n |-> 0]
PyInt(n)      == [t |-> "int", s |-> "", n |-> n]
PyBool(b)     == [t |-> "bool", s |-> "", n |-> IF b THEN 1 ELSE 0]
PyDatetime(n) == [t |-> "datetime", s |-> "", n |-> n]
None          == [t |-> "NoneType", s |-> "", n |-> 0]
\* a key a dict does not hold
Absent        == [t |-> "absent", s |-> "", n |-> 0]

\* isinstance(v, (int, float)): bool is a subclass of int
IsIntOrFloat(v) == v.t \in {"int", "float", "bool"}

\* the truth value of v
Truthy(v) ==
    CASE v.t = "str" -> v.s # ""
      [] v.t \in {"int", "float", "bool"} -> v.n # 0
      [] v.t = "datetime" -> TRUE
      [] OTHER -> FALSE

\* what a function call came to: the value it returned or the error it raised
Return(v) == [raised |-> FALSE, err |-> "", value |-> v]
Raise(e)  == [raised |-> TRUE, err |-> e, value |-> None]

(***************************************************************************)
(* timespan.py                                                             *)
(***************************************************************************)
\* multipliers.get(unit, 0)
Multiplier_minutes_as_ms(unit) ==
    CASE unit = "d" -> 86400000
      [] unit = "h" -> 3600000
      [] unit = "m" -> 1
      [] unit = "s" -> 1000
      [] unit = "ms" -> 1
      [] OTHER -> 0

Multiplier(unit) ==
    CASE unit = "d" -> 86400000
      [] unit = "h" -> 3600000
      [] unit = "m" -> 60000
      [] unit = "s" -> 1000
      [] unit = "ms" -> 1
      [] OTHER -> 0

\* re.match(r'^(\d+)([dhms]{1,2})$', s): the two groups, or <<>> for no match.
\* `$` matches at the end of s and also just before a line feed that ends s.
\* Digits and unit letters are disjoint, so the greedy (\d+) takes the whole
\* digit run and the unit is what is left.
MsGroups(number, unit) ==
    IF /\ Len(number) >= 1
       /\ Len(unit) \in 1..2
       /\ \A i \in 1..Len(unit) : Char(unit, i) \in {"d", "h", "m", "s"}
    THEN <<number, unit>>
    ELSE <<>>

MsSubject(subject) ==
    MsGroups(SubSeq(subject, 1, DigitRun(subject)), Drop(subject, DigitRun(subject)))

MsPattern(s) == MsSubject(IF EndsWith(s, "\n") THEN SubSeq(s, 1, Len(s) - 1) ELSE s)

\* ms(val): None, or the int number * multipliers.get(unit, 0)
MsOf(match) ==
    IF match = <<>> THEN None
    ELSE PyInt(ParseInt(match[1]) * Multiplier(match[2]))

ms(val) == MsOf(MsPattern(Lower(val)))

err_str ==
    "\"expires_in\" argument should be a number of milliseconds or a string representing a timespan eg: \"1d\", \"20h\", 60"

\* timespan(val), with datetime.now() = clock
TimespanOf_unparsed_as_now(milliseconds, clock) ==
    IF milliseconds = None THEN Return(PyDatetime(clock))
    ELSE Return(PyDatetime(clock + milliseconds.n))

TimespanOf(milliseconds, clock) ==
    IF milliseconds = None THEN Raise(err_str)
    ELSE Return(PyDatetime(clock + milliseconds.n))

timespan(val, clock) ==
    IF val.t = "str" THEN TimespanOf(ms(val.s), clock)
    ELSE IF IsIntOrFloat(val) THEN Return(PyDatetime(clock + val.n))
    ELSE Raise(err_str)

(***************************************************************************)
(* datetime.isoformat / datetime.fromisoformat.  Clock value 0 is          *)
(* 1970-01-01T00:00:00; the instants of the model lie within that month.   *)
(***************************************************************************)
isoformat(t) ==
    LET day  == t \div 86400000
        rest == t % 86400000
        hh   == rest \div 3600000
        mm   == (rest % 3600000) \div 60000
        ss   == (rest % 60000) \div 1000
        frac == rest % 1000
    IN  "1970-01-" \o Pad(day + 1, 2) \o "T" \o Pad(hh, 2) \o ":" \o Pad(mm, 2)
            \o ":" \o Pad(ss, 2)
            \o (IF frac = 0 THEN "" ELSE "." \o Pad(frac, 3) \o "000")

AllDigits(s) == \A i \in 1..Len(s) : IsDigit(Char(s, i))

\* fromisoformat(s) for the shapes isoformat writes, with or without a
\* "+00:00" offset: [ok, aware, t].  Other text is "Invalid isoformat string".
IsoShape(body) ==
    /\ Len(body) \in {19, 26}
    /\ SubSeq(body, 1, 8) = "1970-01-"
    /\ AllDigits(SubSeq(body, 9, 10))
    /\ Char(body, 11) = "T"
    /\ AllDigits(SubSeq(body, 12, 13)) /\ Char(body, 14) = ":"
    /\ AllDigits(SubSeq(body, 15, 16)) /\ Char(body, 17) = ":"
    /\ AllDigits(SubSeq(body, 18, 19))
    /\ (Len(body) = 26 => Char(body, 20) = "." /\ AllDigits(SubSeq(body, 21, 26)))
    /\ ParseInt(SubSeq(body, 9, 10)) \in 1..31
    /\ ParseInt(SubSeq(body, 12, 13)) < 24
    /\ ParseInt(SubSeq(body, 15, 16)) < 60
    /\ ParseInt(SubSeq(body, 18, 19)) < 60

IsoInstant(body) ==
    (ParseInt(SubSeq(body, 9, 10)) - 1) * 86400000
        + ParseInt(SubSeq(body, 12, 13)) * 3600000
        + ParseInt(SubSeq(body, 15, 16)) * 60000
        + ParseInt(SubSeq(body, 18, 19)) * 1000
        + (IF Len(body) = 26 THEN ParseInt(SubSeq(body, 21, 26)) \div 1000 ELSE 0)

IsoParsed(aware, body) ==
    IF IsoShape(body) THEN [ok |-> TRUE, aware |-> aware, t |-> IsoInstant(body)]
    ELSE [ok |-> FALSE, aware |-> FALSE, t |-> 0]

fromisoformat(s) ==
    IsoParsed(EndsWith(s, "+00:00"),
              IF EndsWith(s, "+00:00") THEN SubSeq(s, 1, Len(s) - 6) ELSE s)

(***************************************************************************)
(* utils.py                                                                *)
(***************************************************************************)
IsAlnum(c) == IsDigit(c) \/ IsLetter(c)

RECURSIVE LastDotFrom(_, _)
LastDotFrom(s, i) ==
    IF i = 0 THEN 0 ELSE IF Char(s, i) = "." THEN i ELSE LastDotFrom(s, i - 1)

\* the last position of "." in s, 0 when there is none
LastDot(s) == LastDotFrom(s, Len(s))

\* is_valid_domain(value), for a str: re.match of
\*   ^[a-z0-9]+([-.]{1}[a-z0-9]+)*\.[a-z]{2,}$   with re.IGNORECASE.
\* The text after the last "." is two or more letters; the text before it is
\* runs of letters and digits joined by single "-" or "."; `$` also matches
\* just before a line feed that ends the value.
DomainParts(head, tld) ==
    /\ Len(head) >= 1
    /\ Len(tld) >= 2
    /\ \A i \in 1..Len(tld) : IsLetter(Char(tld, i))
    /\ IsAlnum(Char(head, 1))
    /\ IsAlnum(Char(head, Len(head)))
    /\ \A i \in 1..Len(head) :
          \/ IsAlnum(Char(head, i))
          \/ Char(head, i) \in {"-", "."} /\ IsAlnum(Char(head, i + 1))

DomainSubject(subject) ==
    /\ LastDot(subject) > 1
    /\ DomainParts(SubSeq(subject, 1, LastDot(subject) - 1),
                   Drop(subject, LastDot(subject)))

is_valid_domain(value) ==
    DomainSubject(IF EndsWith(value, "\n") THEN SubSeq(value, 1, Len(value) - 1)
                  ELSE value)

\* the characters urllib allows in a scheme
IsSchemeChar(c) == IsAlnum(c) \/ c \in {"+", "-", "."}

\* urlparse(value): [raised, scheme, netloc].  Leading blanks are stripped and
\* tab, CR and LF removed; the scheme is what precedes the first ":" when it
\* starts with a letter and holds scheme characters only; the netloc follows
\* "//" and runs to the first of "/", "?", "#".
UrlResult(scheme, netloc) ==
    [raised |-> Contains(netloc, "[") # Contains(netloc, "]"),
     scheme |-> scheme, netloc |-> netloc]

\* the netloc of what follows "//"
UrlNetloc(after) ==
    IF \A i \in 1..Len(after) : Char(after, i) \notin {"/", "?", "#"} THEN after
    ELSE SubSeq(after, 1,
                First({i \in 1..Len(after) : Char(after, i) \in {"/", "?", "#"}}) - 1)

\* the scheme of url, whose first ":" is at colon; "" for none
UrlScheme(url, colon) ==
    IF /\ colon > 1
       /\ IsLetter(Char(url, 1))
       /\ \A i \in 1..(colon - 1) : IsSchemeChar(Char(url, i))
    THEN Lower(SubSeq(url, 1, colon - 1)) ELSE ""

UrlRest(scheme, rest) ==
    UrlResult(scheme, IF StartsWith(rest, "//") THEN UrlNetloc(Drop(rest, 2)) ELSE "")

UrlSplit(url, scheme) ==
    UrlRest(scheme, IF scheme = "" THEN url ELSE Drop(url, Len(scheme) + 1))

UrlClean(url) == UrlSplit(url, UrlScheme(url, Find(url, ":")))

urlparse(value) ==
    UrlClean(Replace(Replace(Replace(LStrip(value), "\t", ""), "\r", ""), "\n", ""))

IsUrlResult(result) == ~result.raised /\ result.scheme # "" /\ result.netloc # ""

\* is_url(value), for a str
is_url(value) == IsUrlResult(urlparse(value))

(***************************************************************************)
(* sign.py                                                                 *)
(***************************************************************************)
\* the keys of SignOpts, in the order a caller's dict is taken to list them
ParamKeys == <<"domain", "uri", "chain_id", "expiration_time", "expires_in",
               "not_before", "nonce", "request_id", "statement">>

\* dict.get(key): None for a key that is not set
Get(d, key) == IF d[key] = Absent THEN None ELSE d[key]

\* `key in d`
Has(d, key) == d[key] # Absent

NoParams ==
    [domain |-> Absent, uri |-> Absent, chain_id |-> Absent,
     expiration_time |-> Absent, expires_in |-> Absent, not_before |-> Absent,
     nonce |-> Absent, request_id |-> Absent, statement |-> Absent]

LfErr(key)     == "\"" \o key \o "\" option cannot have LF (\\n)"
DomainErr      == "Invalid domain format (must be example.com)"
UriErr         == "Invalid uri format (must be https://example.com/login)"
ChainIdErr     == "chain_id must be an int"
ExpirationErr  == "expiration_time must be an instance of datetime"
NotBeforeErr   == "not_before must be an instance of datetime"
SignerErr      == "\"signer\" argument should be a function that returns a signature string"

\* validate_params(params)
validate_params_accepts_all(params) == Return(None)

\* the places in ParamKeys of the str values that hold a line feed
LfKeys(params) ==
    {i \in 1..Len(ParamKeys) :
        /\ params[ParamKeys[i]].t = "str"
        /\ Contains(params[ParamKeys[i]].s, "\n")}

validate_params(params) ==
        IF LfKeys(params) # {}
        THEN Raise(LfErr(ParamKeys[First(LfKeys(params))]))
        ELSE IF /\ Has(params, "domain")
                /\ ~(params.domain.t = "str" /\ is_valid_domain(params.domain.s))
        THEN Raise(DomainErr)
        ELSE IF /\ Has(params, "uri")
                /\ ~(params.uri.t = "str" /\ is_url(params.uri.s))
        THEN Raise(UriErr)
        ELSE IF Has(params, "chain_id") /\ ~IsIntOrFloat(params.chain_id)
        THEN Raise(ChainIdErr)
        ELSE IF Has(params, "expiration_time") /\ params.expiration_time.t # "datetime"
        THEN Raise(ExpirationErr)
        ELSE IF Has(params, "not_before") /\ params.not_before.t # "datetime"
        THEN Raise(NotBeforeErr)
        ELSE Return(None)

NoBody ==
    [web3_token_version |-> Absent, issued_at |-> Absent,
     expiration_time |-> Absent, not_before |-> Absent, chain_id |-> Absent,
     uri |-> Absent, nonce |-> Absent, request_id |-> Absent, domain |-> Absent,
     statement |-> Absent]

\* process_params(params).  issued is datetime.now() as line 87 reads it, later
\* is datetime.now() as timespan reads it, draw is int(random.random() * 99999999).
ProcessedBody(params, issued, draw, expiry) ==
    IF expiry.raised THEN expiry
    ELSE Return(
            [web3_token_version |-> PyStr("2"),
             issued_at       |-> PyDatetime(issued),
             expiration_time |-> expiry.value,
             not_before      |-> params.not_before,
             chain_id        |-> IF Has(params, "chain_id")
                                 THEN PyInt(params.chain_id.n) ELSE Absent,
             uri             |-> params.uri,
             nonce           |-> IF Truthy(Get(params, "nonce")) THEN PyInt(draw)
                                 ELSE Absent,
             request_id      |-> params.request_id,
             domain          |-> params.domain,
             statement       |-> params.statement])

process_params(params, issued, later, draw) ==
    ProcessedBody(params, issued, draw,
                  IF Truthy(Get(params, "expiration_time"))
                  THEN Return(params.expiration_time)
                  ELSE IF Has(params, "expires_in") THEN timespan(params.expires_in, later)
                  ELSE timespan(PyStr("1d"), later))

Banner == " wants you to sign in with your Ethereum account."

\* str(value), as an f-string formats it
Format(v) == IF v.t = "str" THEN v.s ELSE ToStr(v.n)

\* one entry of param_labels, as lines 150-152 append it
HeaderLine(label, value) ==
    IF value = None THEN <<>> ELSE <<label \o ": " \o Format(value)>>

IsoOf(v) == PyStr(isoformat(v.n))

\* build_message(params)
build_message_nonce_after_issued_at(params) ==
    Join(
        (IF Truthy(Get(params, "domain"))
         THEN <<params.domain.s \o Banner, "">> ELSE <<>>)
        \o (IF Truthy(Get(params, "statement"))
            THEN <<params.statement.s, "">> ELSE <<>>)
        \o HeaderLine("URI", Get(params, "uri"))
        \o HeaderLine("Web3 Token Version", Get(params, "web3_token_version"))
        \o HeaderLine("Chain ID", Get(params, "chain_id"))
        \o HeaderLine("Issued At", IsoOf(params.issued_at))
        \o HeaderLine("Nonce", Get(params, "nonce"))
        \o HeaderLine("Expiration Time", IsoOf(params.expiration_time))
        \o HeaderLine("Not Before",
                      IF Truthy(Get(params, "not_before"))
                      THEN IsoOf(params.not_before) ELSE None)
        \o HeaderLine("Request ID", Get(params, "request_id")),
        "\n")

build_message(params) ==
    Join(
        (IF Truthy(Get(params, "domain"))
         THEN <<params.domain.s \o Banner, "">> ELSE <<>>)
        \o (IF Truthy(Get(params, "statement"))
            THEN <<params.statement.s, "">> ELSE <<>>)
        \o HeaderLine("URI", Get(params, "uri"))
        \o HeaderLine("Web3 Token Version", Get(params, "web3_token_version"))
        \o HeaderLine("Chain ID", Get(params, "chain_id"))
        \o HeaderLine("Nonce", Get(params, "nonce"))
        \o HeaderLine("Issued At", IsoOf(params.issued_at))
        \o HeaderLine("Expiration Time", IsoOf(params.expiration_time))
        \o HeaderLine("Not Before",
                      IF Truthy(Get(params, "not_before"))
                      THEN IsoOf(params.not_before) ELSE None)
        \o HeaderLine("Request ID", Get(params, "request_id")),
        "\n")

(***************************************************************************)
(* The envelope.  base64 and JSON are opaque transports: a token is known  *)
(* by what base64.b64decode(token).decode('utf-8') makes of it (b64) and   *)
(* the decoded text by what json.loads makes of it (json).                 *)
(***************************************************************************)
NoText  == [json |-> "none", body |-> Absent, signature |-> Absent]
NoToken == [b64 |-> "none", text |-> NoText]

\* json.dumps({'signature': signature, 'body': msg})
json_dumps(signature, msg) ==
    [json |-> "object", body |-> PyStr(msg), signature |-> PyStr(signature)]

\* base64.b64encode(text.encode()).decode()
b64encode(text) == [b64 |-> "ok", text |-> text]

(***************************************************************************)
(* The external account capability: sign(text) -> signature and            *)
(* recover(text, signature) -> address.  The ledger holds what the signer  *)
(* has signed; recovery gives the signer's address for those pairs alone.  *)
(***************************************************************************)
SignerAddress   == "0xAbC1"
StrangerAddress == "0xD00d"

IsHexDigit(c) == IsDigit(c) \/ c \in {"a", "b", "c", "d", "e", "f", "A", "B", "C", "D", "E", "F"}

\* bytes.fromhex(s): the bytes, written as lower-case hex; raises ValueError on
\* a character that is no hex digit or on an odd number of digits
fromhex(s) ==
    IF Len(s) % 2 = 0 /\ \A i \in 1..Len(s) : IsHexDigit(Char(s, i))
    THEN Return(PyStr(Lower(s)))
    ELSE Raise("ValueError: non-hexadecimal number found in fromhex() arg")

\* line 75 of decrypt.py: the signature without its optional 0x
StripHexPrefix(signature) ==
    IF StartsWith(signature, "0x") THEN Drop(signature, 2) ELSE signature

\* what a deterministic signer may return for a message: the signature as hex
\* text, with or without the 0x prefix, or something that is no str
SignerResults == {PyStr("0x1b2c"), PyStr("1b2c"), None}

\* the nonces int(random.random() * 99999999) may draw
NonceDraws == {0, 41}

(***************************************************************************)
(* A Python dict with str keys and values: the <<key, value>> pairs in     *)
(* insertion order.                                                        *)
(***************************************************************************)
DictHas(d, key) == \E i \in 1..Len(d) : d[i][1] = key

\* d[key], for a key d holds
DictGet(d, key) == d[CHOOSE i \in 1..Len(d) : d[i][1] = key][2]

\* d[key] = value: a key d holds keeps its place
DictSet(d, key, value) ==
    IF DictHas(d, key)
    THEN [i \in 1..Len(d) |-> IF d[i][1] = key THEN <<key, value>> ELSE d[i]]
    ELSE Append(d, <<key, value>>)

\* `if value: d[key] = value`, for a value that is a str or None
DictSetIf(d, key, value) == IF Truthy(value) THEN DictSet(d, key, value.s) ELSE d

(***************************************************************************)
(* web3_signer/header_parser.py (parse_headers is verify.py's               *)
(* parse_as_headers)                                                       *)
(***************************************************************************)
RECURSIVE ParseHeaderLines(_, _)
\* the loop of parse_headers over the lines left, headers being the dict so far
ParseHeaderLines(lines, headers) ==
    IF lines = <<>> THEN headers
    ELSE ParseHeaderLines(
            Tail(lines),
            IF ~Contains(Head(lines), ":") THEN headers
            ELSE DictSet(headers,
                         Strip(SubSeq(Head(lines), 1, Find(Head(lines), ":") - 1)),
                         Strip(Drop(Head(lines), Find(Head(lines), ":")))))

\* parse_headers(text)
parse_headers(text) == ParseHeaderLines(Split(text, "\n"), <<>>)

RECURSIVE NormalizeFrom(_, _)
NormalizeFrom(headers, normalized) ==
    IF headers = <<>> THEN normalized
    ELSE NormalizeFrom(
            Tail(headers),
            DictSet(normalized, Replace(Head(headers)[1], " ", "-"), Head(headers)[2]))

\* normalize_header_keys(headers)
normalize_header_keys(headers) == NormalizeFrom(headers, <<>>)

(***************************************************************************)
(* web3_signer/message_parser.py, and the same three functions of verify.py *)
(***************************************************************************)
RECURSIVE SplitFrom_collapsing(_, _)
\* the loop of split_sections over the lines left
SplitFrom_collapsing(lines, sections) ==
    IF lines = <<>> THEN sections
    ELSE SplitFrom_collapsing(
            Tail(lines),
            IF Head(lines) = ""
            THEN IF sections[Len(sections)] = <<>> THEN sections
                 ELSE Append(sections, <<>>)
            ELSE [sections EXCEPT ![Len(sections)] = Append(@, Head(lines))])

RECURSIVE SplitFrom(_, _)
SplitFrom(lines, sections) ==
    IF lines = <<>> THEN sections
    ELSE SplitFrom(
            Tail(lines),
            IF Head(lines) = "" THEN Append(sections, <<>>)
            ELSE [sections EXCEPT ![Len(sections)] = Append(@, Head(lines))])

\* split_sections(lines)
split_sections(lines) == SplitFrom(lines, <<(<<>>)>>)

\* extract_token_domain(sections): the domain (a str), or None
extract_token_domain(sections) ==
    IF sections[1] = <<>> THEN None
    ELSE IF EndsWith(sections[1][Len(sections[1])], Banner)
    THEN PyStr(Strip(Replace(sections[1][Len(sections[1])], Banner, "")))
    ELSE None

\* extract_token_statement(sections): returns the statement (a str) or None,
\* or raises IndexError on the first line of a group that has none
extract_token_statement(sections) ==
    IF Len(sections) = 2 /\ ~Truthy(extract_token_domain(sections))
    THEN IF sections[1] = <<>> THEN Raise("IndexError: list index out of range")
         ELSE Return(PyStr(sections[1][1]))
    ELSE IF Len(sections) = 3
    THEN IF sections[2] = <<>> THEN Raise("IndexError: list index out of range")
         ELSE Return(PyStr(sections[2][1]))
    ELSE Return(None)

(***************************************************************************)
(* verify.py and web3_signer/verify.py: parse_body                         *)
(***************************************************************************)
DamagedErr == "Decrypted body is damaged"

\* del d[key]
DictDel(d, key) == SelectSeq(d, LAMBDA kv : kv[1] # key)

RECURSIVE HyphenateInPlace(_, _)
\* the loop of verify.py over list(parsed_headers.keys()), a snapshot
HyphenateInPlace(keys, parsed_headers) ==
    IF keys = <<>> THEN parsed_headers
    ELSE HyphenateInPlace(
            Tail(keys),
            IF Replace(Head(keys), " ", "-") # Head(keys)
            THEN DictDel(DictSet(parsed_headers, Replace(Head(keys), " ", "-"),
                                 DictGet(parsed_headers, Head(keys))),
                         Head(keys))
            ELSE parsed_headers)

RECURSIVE SnakeFrom(_, _)
\* the dict comprehension {key.replace('-', '_'): value ...}
SnakeFrom(headers, result) ==
    IF headers = <<>> THEN result
    ELSE SnakeFrom(
            Tail(headers),
            DictSet(result, Replace(Head(headers)[1], "-", "_"), Head(headers)[2]))

required_fields == <<"issued-at", "expiration-time", "web3-token-version">>

\* lines 118-124: the claims dict, result being the snake-keyed headers
ClaimsOf(result, token_domain, token_statement) ==
    DictSetIf(DictSetIf(result, "domain", token_domain), "statement", token_statement)

\* what both parse_body functions do once the header keys are hyphenated
ParseBodyWith(headers, token_domain, token_statement) ==
    IF token_statement.raised
    THEN [raised |-> TRUE, err |-> token_statement.err, value |-> <<>>]
    ELSE IF \E i \in 1..Len(required_fields) : ~DictHas(headers, required_fields[i])
    THEN [raised |-> TRUE, err |-> DamagedErr, value |-> <<>>]
    ELSE [raised |-> FALSE, err |-> "",
          value  |-> ClaimsOf(SnakeFrom(headers, <<>>), token_domain,
                              token_statement.value)]

\* verify.py, lines 102-113: the header block with its keys hyphenated in place
HyphenatedHeaders(parsed_headers) ==
    HyphenateInPlace([i \in 1..Len(parsed_headers) |-> parsed_headers[i][1]],
                     parsed_headers)

\* the header block: '\n'.join(body_sections[-1])
MainBodySection(body_sections) == Join(body_sections[Len(body_sections)], "\n")

ParseSections(body_sections) ==
    ParseBodyWith(HyphenatedHeaders(parse_headers(MainBodySection(body_sections))),
                  extract_token_domain(body_sections),
                  extract_token_statement(body_sections))

\* verify.py: parse_body(lines), returns the claims dict or raises
parse_body(lines) == ParseSections(split_sections(lines))

web3_signer_ParseSections(body_sections) ==
    ParseBodyWith(normalize_header_keys(parse_headers(MainBodySection(body_sections))),
                  extract_token_domain(body_sections),
                  extract_token_statement(body_sections))

\* web3_signer/verify.py: parse_body(lines)
web3_signer_parse_body(lines) == web3_signer_ParseSections(split_sections(lines))

(***************************************************************************)
(* decrypt.py                                                              *)
(***************************************************************************)
RequiredErr       == "Token required."
Base64Err         == "Token malformed (must be base64 encoded)"
UnparsableErr     == "Token malformed (unparsable JSON)"
EmptyMessageErr   == "Token malformed (empty message)"
EmptySignatureErr == "Token malformed (empty signature)"
MissingVersionErr == "Token malformed (missing version)"

\* [\s-]
IsVersionGap(c) == c \in Whitespace \/ c = "-"

RECURSIVE GapRun(_, _)
\* the length of the run of [\s-] characters of s that starts at i
GapRun(s, i) ==
    IF i <= Len(s) /\ IsVersionGap(Char(s, i)) THEN 1 + GapRun(s, i + 1) ELSE 0

\* whether Token[\s-]+Version: \d matches s at t: 0, or the position of the
\* digit.  "V" is no gap character, so the gap is the whole run.
TokenMatchAt(s, t) ==
    IF /\ OccursAt(s, "Token", t)
       /\ GapRun(s, t + 5) > 0
       /\ OccursAt(s, "Version: ", t + 5 + GapRun(s, t + 5))
       /\ t + 14 + GapRun(s, t + 5) <= Len(s)
       /\ IsDigit(Char(s, t + 14 + GapRun(s, t + 5)))
    THEN t + 14 + GapRun(s, t + 5) ELSE 0

\* whether Web3[\s-]+Token[\s-]+Version: \d matches s at i: 0, or the position
\* of the digit.  "T" is no gap character, so the gap is the whole run.
VersionMatchAt(s, i) ==
    IF OccursAt(s, "Web3", i) /\ GapRun(s, i + 4) > 0
    THEN TokenMatchAt(s, i + 4 + GapRun(s, i + 4)) ELSE 0

\* the places where "Web3" occurs in s and the pattern matches
VersionMatches(s) ==
    {i \in 1..Len(s) : OccursAt(s, "Web3", i) /\ VersionMatchAt(s, i) # 0}

\* re.search: the digit of the leftmost match, 0 when there is none
VersionSearch(s) ==
    IF VersionMatches(s) = {} THEN 0 ELSE VersionMatchAt(s, First(VersionMatches(s)))

VersionOf(body, digit) ==
    IF digit = 0 THEN Raise(MissingVersionErr)
    ELSE Return(PyInt(ParseInt(Char(body, digit))))

\* get_version(body): the int after "Version: " in the leftmost match
get_version(body) == VersionOf(body, VersionSearch(body))

NoDec == [version |-> 0, address |-> "", body |-> "", signature |-> ""]

\* how decrypt ends: the error raised or the dict returned, and the stages it
\* evaluated on the way, in order
DecRaise(e, stages) == [raised |-> TRUE, err |-> e, value |-> NoDec, reached |-> stages]

\* recover_message(message, signature): the signer's address for a signature
\* the signer made of this very message; for any other bytes the capability
\* either recovers some other account's address or rejects the signature
RecoverResults(book, message, signature_bytes) ==
    IF \E e \in book : e.sig = signature_bytes /\ e.msg = message
    THEN {Return(PyStr(e.addr)) : e \in {x \in book : x.sig = signature_bytes
                                                       /\ x.msg = message}}
    ELSE {Return(PyStr(StrangerAddress)), Raise("BadSignature")}

\* lines 47-52: base64.b64decode(token).decode('utf-8'), the text or the error
b64decode_never_raises(token) == [raised |-> FALSE, err |-> "", value |-> token.text]

b64decode(token) ==
    IF token.b64 = "ok"
    THEN [raised |-> FALSE, err |-> "", value |-> token.text]
    ELSE [raised |-> TRUE, err |-> Base64Err, value |-> NoText]

\* lines 83-90: get_version(body) and the dict returned
DecryptVersion(body, signature, recovered, version) ==
    IF version.raised
    THEN DecRaise(version.err, <<"b64decode", "json.loads", "fromhex",
                                 "recover_message", "get_version">>)
    ELSE [raised  |-> FALSE, err |-> "",
          value   |-> [version   |-> version.value.n,
                       address   |-> Lower(recovered.value.s),
                       body      |-> body.s,
                       signature |-> signature.s],
          reached |-> <<"b64decode", "json.loads", "fromhex", "recover_message",
                        "get_version">>]

\* lines 75-81: the signature bytes, the message, the address recovered
DecryptBytes_version_first(body, signature, signature_bytes, recovered) ==
    IF signature_bytes.raised
    THEN DecRaise(signature_bytes.err, <<"b64decode", "json.loads", "fromhex">>)
    ELSE IF body.t # "str"
    THEN DecRaise("TypeError: encode_defunct", <<"b64decode", "json.loads", "fromhex">>)
    ELSE IF get_version(body.s).raised
    THEN DecRaise(get_version(body.s).err,
                  <<"b64decode", "json.loads", "fromhex", "get_version">>)
    ELSE IF recovered.raised
    THEN DecRaise(recovered.err,
                  <<"b64decode", "json.loads", "fromhex", "get_version",
                    "recover_message">>)
    ELSE DecryptVersion(body, signature, recovered, get_version(body.s))

DecryptBytes(body, signature, signature_bytes, recovered) ==
    IF signature_bytes.raised
    THEN DecRaise(signature_bytes.err, <<"b64decode", "json.loads", "fromhex">>)
    ELSE IF body.t # "str"
    THEN DecRaise("TypeError: encode_defunct", <<"b64decode", "json.loads", "fromhex">>)
    ELSE IF recovered.raised
    THEN DecRaise(recovered.err,
                  <<"b64decode", "json.loads", "fromhex", "recover_message">>)
    ELSE DecryptVersion(body, signature, recovered, get_version(body.s))

\* lines 65-75: the two fields are there and not empty
DecryptFields(body, signature, recovered) ==
    IF ~Truthy(body) THEN DecRaise(EmptyMessageErr, <<"b64decode", "json.loads">>)
    ELSE IF ~Truthy(signature)
    THEN DecRaise(EmptySignatureErr, <<"b64decode", "json.loads">>)
    ELSE IF signature.t # "str"
    THEN DecRaise("AttributeError: startswith", <<"b64decode", "json.loads">>)
    ELSE DecryptBytes(body, signature, fromhex(StripHexPrefix(signature.s)), recovered)

\* lines 52-63: the decoded text is not empty; json.loads; the two subscripts
DecryptText(text, recovered) ==
    IF text.raised THEN DecRaise(text.err, <<"b64decode">>)
    ELSE IF text.value.json = "empty" THEN DecRaise(Base64Err, <<"b64decode">>)
    ELSE IF text.value.json \in {"garbage", "none"}
    THEN DecRaise(UnparsableErr, <<"b64decode", "json.loads">>)
    ELSE IF text.value.json # "object"
    THEN DecRaise("TypeError: indices must be integers", <<"b64decode", "json.loads">>)
    ELSE IF text.value.body = Absent \/ text.value.signature = Absent
    THEN DecRaise(UnparsableErr, <<"b64decode", "json.loads">>)
    ELSE DecryptFields(text.value.body, text.value.signature, recovered)

\* decrypt(token), recovered being what recover_message comes to if called
decrypt(token, recovered) ==
    IF token.b64 = "empty" THEN DecRaise(RequiredErr, <<>>)
    ELSE DecryptText(b64decode(token), recovered)

\* the recover_message outcomes decrypt(token) may meet
RecoverFor(book, token) ==
    IF /\ token.b64 = "ok" /\ token.text.json = "object"
       /\ token.text.body.t = "str" /\ token.text.signature.t = "str"
       /\ ~fromhex(StripHexPrefix(token.text.signature.s)).raised
    THEN RecoverResults(book, token.text.body.s,
                        fromhex(StripHexPrefix(token.text.signature.s)).value.s)
    ELSE {Raise("BadSignature")}

(***************************************************************************)
(* verify.py: verify(token, opts), and decrypt(token) called on its own    *)
(***************************************************************************)
UnsupportedVersionErr ==
    "Tokens version 1 are not supported by the current version of module"
ExpiredErr        == "Token expired"
NotYetErr         == "It's not yet time to use the token"
DomainMismatchErr == "Inappropriate token domain"
IsoformatErr      == "ValueError: Invalid isoformat string"
AwareErr          == "TypeError: can't compare offset-naive and offset-aware datetimes"

\* opts or {}
NoOpts   == [domain |-> Absent]
NoResult == [address |-> "", body |-> <<>>]

\* line 160: if version == 1
VersionGate_open(version) == FALSE

VersionGate(version) == version = 1

\* lines 156-158 of verify, or decrypt(token) itself: the whole of decrypt
Decrypt(entry, token, opts) ==
    /\ v_pc = "idle"
    /\ v_entry' = entry /\ v_token' = token /\ v_opts' = opts
    /\ \E recovered \in RecoverFor(ledger, token) :
          \E decrypted \in {decrypt(token, recovered)} :
              /\ v_reached' = decrypted.reached
              /\ IF decrypted.raised
                 THEN v_pc' = "raised" /\ v_err' = decrypted.err /\ UNCHANGED v_dec
                 ELSE /\ v_pc' = IF entry = "decrypt" THEN "returned" ELSE "decrypted"
                      /\ v_dec' = decrypted.value
                      /\ UNCHANGED v_err
    /\ UNCHANGED <<now, tsVars, pb, signVars, v_parsed, v_reads, v_result>>

\* lines 160-166: the version gate, then parse_body(body.split('\n'))
VerifyParse ==
    /\ v_pc = "decrypted"
    /\ IF VersionGate(v_dec.version)
       THEN /\ v_pc' = "raised" /\ v_err' = UnsupportedVersionErr
            /\ v_reached' = Append(v_reached, "version")
            /\ UNCHANGED v_parsed
       ELSE \E parsed_body \in {parse_body(Split(v_dec.body, "\n"))} :
                /\ v_reached' = v_reached \o <<"version", "parse_body">>
                /\ IF parsed_body.raised
                   THEN v_pc' = "raised" /\ v_err' = parsed_body.err
                        /\ UNCHANGED v_parsed
                   ELSE v_pc' = "parsed" /\ v_parsed' = parsed_body.value
                        /\ UNCHANGED v_err
    /\ UNCHANGED <<now, tsVars, pb, signVars, v_entry, v_token, v_opts, v_dec, v_reads,
                   v_result>>

\* lines 168-170: the expiry check, which reads the clock
VerifyExpiry ==
    /\ v_pc = "parsed"
    /\ \E expiration_time \in
            {fromisoformat(Replace(DictGet(v_parsed, "expiration_time"), "Z", "+00:00"))} :
           /\ v_reached' = Append(v_reached, "expiry")
           /\ v_reads' = IF expiration_time.ok THEN Append(v_reads, now) ELSE v_reads
           /\ IF ~expiration_time.ok THEN v_pc' = "raised" /\ v_err' = IsoformatErr
              ELSE IF expiration_time.aware THEN v_pc' = "raised" /\ v_err' = AwareErr
              ELSE IF expiration_time.t < now THEN v_pc' = "raised" /\ v_err' = ExpiredErr
              ELSE v_pc' = "unexpired" /\ UNCHANGED v_err
    /\ UNCHANGED <<now, tsVars, pb, signVars, v_entry, v_token, v_opts, v_dec, v_parsed,
                   v_result>>

\* lines 172-175: the not-before check, which reads the clock again
VerifyNotBefore ==
    /\ v_pc = "unexpired"
    /\ v_reached' = Append(v_reached, "not_before")
    /\ IF DictHas(v_parsed, "not_before") /\ DictGet(v_parsed, "not_before") # ""
       THEN \E not_before \in
                {fromisoformat(Replace(DictGet(v_parsed, "not_before"), "Z", "+00:00"))} :
                /\ v_reads' = IF not_before.ok THEN Append(v_reads, now) ELSE v_reads
                /\ IF ~not_before.ok THEN v_pc' = "raised" /\ v_err' = IsoformatErr
                   ELSE IF not_before.aware THEN v_pc' = "raised" /\ v_err' = AwareErr
                   ELSE IF not_before.t > now THEN v_pc' = "raised" /\ v_err' = NotYetErr
                   ELSE v_pc' = "active" /\ UNCHANGED v_err
       ELSE v_pc' = "active" /\ UNCHANGED <<v_err, v_reads>>
    /\ UNCHANGED <<now, tsVars, pb, signVars, v_entry, v_token, v_opts, v_dec, v_parsed,
                   v_result>>

\* lines 177-180: the domain check and the result
VerifyDomain_when_token_has_domain ==
    /\ v_pc = "active"
    /\ v_reached' = Append(v_reached, "domain")
    /\ IF /\ Truthy(Get(v_opts, "domain"))
          /\ DictHas(v_parsed, "domain")
          /\ v_opts.domain # PyStr(DictGet(v_parsed, "domain"))
       THEN v_pc' = "raised" /\ v_err' = DomainMismatchErr /\ UNCHANGED v_result
       ELSE /\ v_pc' = "returned"
            /\ v_result' = [address |-> v_dec.address, body |-> v_parsed]
            /\ UNCHANGED v_err
    /\ UNCHANGED <<now, tsVars, pb, signVars, v_entry, v_token, v_opts, v_dec, v_parsed,
                   v_reads>>

VerifyDomain ==
    /\ v_pc = "active"
    /\ v_reached' = Append(v_reached, "domain")
    /\ IF /\ Truthy(Get(v_opts, "domain"))
          /\ ~(DictHas(v_parsed, "domain")
               /\ v_opts.domain = PyStr(DictGet(v_parsed, "domain")))
       THEN v_pc' = "raised" /\ v_err' = DomainMismatchErr /\ UNCHANGED v_result
       ELSE /\ v_pc' = "returned"
            /\ v_result' = [address |-> v_dec.address, body |-> v_parsed]
            /\ UNCHANGED v_err
    /\ UNCHANGED <<now, tsVars, pb, signVars, v_entry, v_token, v_opts, v_dec, v_parsed,
                   v_reads>>

(***************************************************************************)
(* parse_body(lines) and its helpers, called on their own                  *)
(***************************************************************************)
NoParse ==
    [pc |-> "idle", lines |-> <<>>, sections |-> <<>>, domain |-> None,
     statement |-> Return(None), top |-> Return(None), ns |-> Return(None)]

\* split_sections, extract_token_domain and extract_token_statement of the
\* lines, and parse_body of verify.py (top) and of web3_signer/verify.py (ns)
ParseBody(lines) ==
    /\ pb.pc = "idle"
    /\ pb' = [pc        |-> "parsed",
              lines     |-> lines,
              sections  |-> split_sections(lines),
              domain    |-> extract_token_domain(split_sections(lines)),
              statement |-> extract_token_statement(split_sections(lines)),
              top       |-> parse_body(lines),
              ns        |-> web3_signer_parse_body(lines)]
    /\ UNCHANGED <<now, tsVars, signVars, verifyVars>>

(***************************************************************************)
(* sign(signer, opts)                                                      *)
(***************************************************************************)
\* lines 183-185: params, validate_params(params)
Sign(opts) ==
    /\ sign_pc = "idle"
    /\ sign_params' = opts
    /\ \E checked \in {validate_params(opts)} :
           IF checked.raised
           THEN sign_pc' = "raised" /\ sign_err' = checked.err
           ELSE sign_pc' = "validated" /\ UNCHANGED sign_err
    /\ UNCHANGED <<now, tsVars, pb, verifyVars, sign_body, sign_msg, sign_sig,
                   sign_token, signer_calls, ledger>>

\* line 186: body = process_params(params).  The clock is read for issued_at
\* and again inside timespan; it may have advanced in between.
SignProcess ==
    /\ sign_pc = "validated"
    /\ \E later \in now..MaxClock, draw \in NonceDraws :
          \E body \in {process_params(sign_params, now, later, draw)} :
              /\ now' = later
              /\ IF body.raised
                 THEN /\ sign_pc' = "raised"
                      /\ sign_err' = body.err
                      /\ UNCHANGED sign_body
                 ELSE /\ sign_pc' = "processed"
                      /\ sign_body' = body.value
                      /\ UNCHANGED sign_err
    /\ UNCHANGED <<tsVars, pb, verifyVars, sign_params, sign_msg, sign_sig,
                   sign_token, signer_calls, ledger>>

\* lines 187-188: msg = build_message(body); the signer is invoked with msg
SignBuild ==
    /\ sign_pc = "processed"
    /\ sign_msg' = build_message(sign_body)
    /\ signer_calls' = Append(signer_calls, sign_msg')
    /\ sign_pc' = "awaiting"
    /\ UNCHANGED <<now, tsVars, pb, verifyVars, sign_params, sign_body, sign_sig,
                   sign_token, sign_err, ledger>>

\* lines 188-199: the signer returns; the type check; the token
SignerReturns ==
    /\ sign_pc = "awaiting"
    /\ \E signature \in SignerResults :
          /\ sign_sig' = signature
          /\ IF signature.t # "str"
             THEN /\ sign_pc' = "raised"
                  /\ sign_err' = SignerErr
                  /\ UNCHANGED <<sign_token, ledger>>
             ELSE /\ sign_pc' = "returned"
                  /\ sign_token' = b64encode(json_dumps(signature.s, sign_msg))
                  /\ ledger' = ledger \cup
                        {[sig  |-> fromhex(StripHexPrefix(signature.s)).value.s,
                          msg  |-> sign_msg,
                          addr |-> SignerAddress]}
                  /\ UNCHANGED sign_err
    /\ UNCHANGED <<now, tsVars, pb, verifyVars, sign_params, sign_body, sign_msg,
                   signer_calls>>

\* the process clock advances
Tick ==
    /\ now < MaxClock
    /\ now' = now + 1
    /\ UNCHANGED <<tsVars, pb, signVars, verifyVars>>

(***************************************************************************)
(* timespan(val)                                                           *)
(***************************************************************************)
Timespan(val) ==
    /\ ts_pc = "idle"
    /\ ts_val' = val
    /\ ts_ms' = IF val.t = "str" THEN ms(val.s) ELSE Absent
    /\ \E result \in {timespan(val, now)} :
           /\ ts_pc' = IF result.raised THEN "raised" ELSE "returned"
           /\ ts_result' = result
    /\ UNCHANGED <<now, pb, signVars, verifyVars>>

(***************************************************************************)
(* The arguments the model calls the entry points with.                    *)
(***************************************************************************)
\* the characters duration expressions are written with
DurationChars == {"0", "1", "2", "d", "h", "m", "s", "D", "H", "M", "S",
                  "y", ".", "-", "\n"}

RECURSIVE StringsUpTo(_)
StringsUpTo(n) ==
    IF n = 0 THEN {""}
    ELSE LET shorter == StringsUpTo(n - 1)
         IN  shorter \cup {s \o c : s \in shorter, c \in DurationChars}

\* Python's int is unbounded and the model checker's is 32 bits wide: the
\* expressions keep their leading number within MaxNumber, whose product with
\* the largest multiplier fits.
TimespanArgs ==
    {PyStr(s) : s \in {x \in StringsUpTo(MaxLen) :
                          ParseInt(SubSeq(x, 1, DigitRun(x))) <= MaxNumber}}
        \cup {PyInt(0), PyInt(3600000), PyBool(TRUE), None, [t |-> "dict", s |-> "", n |-> 0]}

\* the dicts sign is called with: valid and invalid values of every option
SignOpts ==
    [domain          : {Absent, PyStr("iq.wiki"), PyStr("wiki")},
     uri             : {Absent, PyStr("https://iq.wiki/login"), PyStr("local.com")},
     chain_id        : {Absent, PyInt(1), PyBool(TRUE), PyStr("x")},
     expiration_time : {Absent, PyDatetime(0)},
     expires_in      : {Absent, PyStr("1s"), PyStr("asd")},
     not_before      : {Absent, PyDatetime(1)},
     nonce           : {Absent, PyBool(TRUE)},
     request_id      : {Absent, PyStr("r1"), PyStr("")},
     statement       : {Absent, PyStr("Test"), PyStr(""), PyStr("a\nb")}]

\* the arguments of sign: the dicts, and sign(signer, '1d'), where a str opts
\* stands for {'expires_in': opts}
SignArgs ==
    SignOpts \cup {[NoParams EXCEPT !.expires_in = PyStr(s)] : s \in {"1d", "1y", "1h\n"}}

\* the dicts of valid options whose tokens are handed on to verify: uri,
\* chain_id and request_id are set together or not at all
RoundTripOpts ==
    {[domain          |-> domain,
      uri             |-> IF context THEN PyStr("https://iq.wiki/login") ELSE Absent,
      chain_id        |-> IF context THEN PyInt(1) ELSE Absent,
      expiration_time |-> expiration_time,
      expires_in      |-> expires_in,
      not_before      |-> not_before,
      nonce           |-> nonce,
      request_id      |-> IF context THEN PyStr("r1") ELSE Absent,
      statement       |-> statement] :
        domain          \in {Absent, PyStr("iq.wiki")},
        context         \in BOOLEAN,
        expiration_time \in {Absent, PyDatetime(1)},
        expires_in      \in {Absent, PyStr("1d")},
        not_before      \in {Absent, PyDatetime(1)},
        nonce           \in {Absent, PyBool(TRUE)},
        statement       \in {Absent, PyStr("Test")}}

\* the opts verify is called with
VerifyOpts == {NoOpts, [domain |-> PyStr("iq.wiki")], [domain |-> PyStr("other.domain")]}

\* bodies written by hand rather than by build_message: an optional banner, an
\* optional statement, a version tag as build_message or version 1 of the
\* format wrote it, and header lines in the lower-case spelling
CraftedBodies ==
    {Join(banner \o statement \o tag \o headers, "\n") :
        banner    \in {<<>>, <<"iq.wiki" \o Banner, "">>},
        statement \in {<<>>, <<"Test", "">>},
        tag       \in {<<>>, <<"Web3 Token Version: 1">>, <<"Web3 Token Version: 2">>,
                       <<"Web3-Token-Version: 1">>},
        headers   \in {<<>>} \cup
                      {<<"web3-token-version: 2", "issued-at: " \o isoformat(0),
                         "expiration-time: " \o expiry>> \o not_before :
                          expiry     \in {isoformat(0), isoformat(1),
                                          "1970-01-02T00:00:00Z", "soon"},
                          not_before \in {<<>>, <<"not-before: " \o isoformat(1)>>}}}

\* the signature fields of hand-written envelopes: hex of an account that is
\* not the signer, text that is no hex, the empty string
CraftedSignatures == {PyStr("0xdead"), PyStr("zz"), PyStr("")}

\* tokens that do not come from sign
CraftedTokens ==
    {b64encode([json |-> "object", body |-> PyStr(body), signature |-> signature]) :
        body \in CraftedBodies, signature \in CraftedSignatures}
    \cup {b64encode([json |-> "object", body |-> body, signature |-> signature]) :
            body      \in {Absent, None, PyStr("Web3 Token Version: 2")},
            signature \in {Absent, None, PyInt(7)}}
    \cup {b64encode([json |-> j, body |-> Absent, signature |-> Absent]) :
            j \in {"empty", "garbage", "array", "scalar"}}
    \cup {[b64 |-> b, text |-> NoText] : b \in {"empty", "invalid", "notutf8"}}

\* verify(token, opts) and decrypt(token), which takes no opts
Calls == {<<"verify", opts>> : opts \in VerifyOpts} \cup {<<"decrypt", NoOpts>>}

\* the tokens a caller holds: what sign returned, or a hand-written one
Presented ==
    IF sign_pc = "returned" THEN {sign_token}
    ELSE IF sign_pc = "idle" THEN CraftedTokens
    ELSE {}

\* the sequences of lines parse_body and split_sections are called with, each
\* line a blank line, a statement, a banner, or a header line keyed with
\* spaces or with hyphens
BodyLines ==
    UNION {[1..n -> {"", "Test", "iq.wiki" \o Banner, "issued at: a", "issued-at: b",
                     "expiration-time: e", "web3-token-version: 2"}] :
              n \in 0..MaxLines}

\* valid options whose text values look like parts of the message format: a
\* statement or request_id that reads like the banner, a statement or uri that
\* holds a version tag
BuiltOpts ==
    {[NoParams EXCEPT !.domain = domain, !.statement = statement, !.uri = uri,
                      !.request_id = request_id, !.not_before = not_before] :
        domain     \in {Absent, PyStr("iq.wiki")},
        statement  \in {Absent, PyStr("Test"), PyStr("evil.io" \o Banner),
                        PyStr("Web3 Token Version: 1")},
        uri        \in {Absent, PyStr("https://iq.wiki/login"),
                        PyStr("https://iq.wiki/Web3-Token-Version: 1")},
        request_id \in {Absent, PyStr("r1"), PyStr("evil.io" \o Banner)},
        not_before \in {Absent, PyDatetime(1)}}

(***************************************************************************)
(* Specifications.                                                         *)
(***************************************************************************)
Init ==
    /\ now = 0
    /\ ts_pc = "idle" /\ ts_val = Absent /\ ts_ms = Absent /\ ts_result = Return(None)
    /\ sign_pc = "idle" /\ sign_params = NoParams /\ sign_body = NoBody
    /\ sign_msg = "" /\ sign_sig = Absent /\ sign_token = NoToken /\ sign_err = ""
    /\ signer_calls = <<>> /\ ledger = {}
    /\ v_pc = "idle" /\ v_entry = "" /\ v_token = NoToken /\ v_opts = NoOpts
    /\ v_dec = NoDec /\ v_parsed = <<>> /\ v_reads = <<>> /\ v_reached = <<>>
    /\ v_err = "" /\ v_result = NoResult
    /\ pb = NoParse

\* the timespan resolver alone
NextTimespan == ts_pc = "idle" /\ \E val \in TimespanArgs : Timespan(val)

SpecTimespan == Init /\ [][NextTimespan]_vars

\* sign alone, over every combination of options
NextSign ==
    \/ sign_pc = "idle" /\ \E opts \in SignArgs : Sign(opts)
    \/ SignProcess
    \/ SignBuild
    \/ SignerReturns
    \/ Tick

SpecSign == Init /\ [][NextSign]_vars

\* sign, then verify or decrypt of the token it returned; or verify / decrypt of
\* a hand-written token
Next ==
    \/ sign_pc = "idle" /\ v_pc = "idle" /\ \E opts \in RoundTripOpts : Sign(opts)
    \/ SignProcess
    \/ SignBuild
    \/ SignerReturns
    \/ v_pc = "idle" /\ \E token \in Presented, call \in Calls :
            Decrypt(call[1], token, call[2])
    \/ VerifyParse
    \/ VerifyExpiry
    \/ VerifyNotBefore
    \/ VerifyDomain
    \/ Tick

Spec == Init /\ [][Next]_vars

\* the body parsers on hand-written lines; or sign, then the body parsers on
\* msg.split('\n') of the message it built and decrypt / verify of the token
\* it returned
NextParse ==
    \/ sign_pc = "idle" /\ pb.pc = "idle" /\ \E opts \in BuiltOpts : Sign(opts)
    \/ SignProcess
    \/ SignBuild
    \/ SignerReturns
    \/ \E lines \in (IF sign_pc = "idle" THEN BodyLines
                      ELSE IF sign_msg # "" THEN {Split(sign_msg, "\n")}
                      ELSE {}) : ParseBody(lines)
    \/ /\ sign_pc = "returned" /\ v_pc = "idle"
       /\ \E call \in {<<"verify", NoOpts>>, <<"decrypt", NoOpts>>} :
              Decrypt(call[1], sign_token, call[2])
    \/ VerifyParse

SpecParse == Init /\ [][NextParse]_vars

(***************************************************************************)
(* The duration resolver (SpecTimespan).                                   *)
(***************************************************************************)
\* the five units and what each is worth in milliseconds
UnitMilliseconds ==
    [d |-> 86400000, h |-> 3600000, m |-> 60000, s |-> 1000, ms |-> 1]

\* the units in every letter case
UnitSpellings ==
    {"d", "D", "h", "H", "m", "M", "s", "S", "ms", "Ms", "mS", "MS"}

\* s is a run of decimal digits followed by exactly one unit
WellFormedDuration(s) ==
    \E k \in 1..Len(s) :
        /\ \A i \in 1..k : IsDigit(Char(s, i))
        /\ Drop(s, k) \in UnitSpellings

\* C6: for every non-negative integer n and every unit d, h, m, s, ms in any
\* letter case, ms(n followed by the unit) returns n times the unit's
\* millisecond multiplier; 'm' is minutes and 'ms' is milliseconds.
C6_UnitValues ==
    \A n \in 0..MaxNumber, unit \in UnitSpellings :
        (ts_pc # "idle" /\ ts_val = PyStr(ToStr(n) \o unit))
            => ts_ms = PyInt(n * UnitMilliseconds[Lower(unit)])

\* ms("12M") has returned twelve minutes
C6_Witness ==
    ts_pc = "returned" /\ ts_val = PyStr("12M") /\ ts_ms = PyInt(720000)

\* C7: for every string that is not a run of decimal digits followed by exactly
\* one of the units, ms returns None and never a number, and timespan on that
\* string raises the error with the fixed "expires_in" message.
C7_RejectsIllFormed ==
    (ts_pc # "idle" /\ ts_val.t = "str" /\ ~WellFormedDuration(ts_val.s))
        => /\ ts_ms = None
           /\ ts_pc = "raised"
           /\ ts_result = Raise(err_str)

(***************************************************************************)
(* sign (SpecSign).                                                        *)
(***************************************************************************)
\* the claims hold something validate_params is to reject: a str with a line
\* feed, a domain that is no hostname, a uri without scheme and host, a
\* chain_id that is no number
Offending(params) ==
    \/ \E i \in 1..Len(ParamKeys) :
          /\ params[ParamKeys[i]].t = "str"
          /\ \E j \in 1..Len(params[ParamKeys[i]].s) : Char(params[ParamKeys[i]].s, j) = "\n"
    \/ Has(params, "domain") /\ ~(params.domain.t = "str" /\ is_valid_domain(params.domain.s))
    \/ Has(params, "uri") /\ ~(params.uri.t = "str" /\ is_url(params.uri.s))
    \/ Has(params, "chain_id") /\ params.chain_id.t \notin {"int", "float", "bool"}

ValidationErrors ==
    {LfErr(ParamKeys[i]) : i \in 1..Len(ParamKeys)} \cup {DomainErr, UriErr, ChainIdErr}

\* C8: whenever the claims given to sign hold a string with a line feed, a
\* domain that is no valid hostname, a uri without scheme and host or a
\* non-numeric chain_id, sign fails with the validation error before any
\* message text is built; the signer is never invoked and no token returned.
C8_ValidationPrecedesSigning ==
    (sign_pc # "idle" /\ Offending(sign_params))
        => /\ sign_pc = "raised"
           /\ sign_err \in ValidationErrors
           /\ sign_body = NoBody
           /\ sign_msg = ""
           /\ signer_calls = <<>>
           /\ sign_token = NoToken

\* sign was called with the domain "wiki" and raised the domain error
C8_Witness ==
    /\ sign_pc = "raised"
    /\ sign_params.domain = PyStr("wiki")
    /\ sign_err = DomainErr
    /\ signer_calls = <<>>

\* expires_in is a str that ms cannot parse
UnparseableExpiresIn(params) ==
    params.expires_in.t = "str" /\ ms(params.expires_in.s) = None

\* C9 as stated: for every claims value whose expires_in is a string that ms
\* cannot parse, sign fails with the "expires_in" argument error whatever other
\* claims accompany it; the signer is not invoked and no token is returned.
C9_AsStated ==
    (sign_pc # "idle" /\ UnparseableExpiresIn(sign_params))
        => /\ sign_pc \in {"validated", "raised"}
           /\ sign_pc = "raised" => sign_err = err_str
           /\ signer_calls = <<>>
           /\ sign_token = NoToken

\* C9 amended: for every claims value that passes validation, sets no
\* expiration_time and whose expires_in is a string that ms cannot parse, sign
\* fails with the "expires_in" argument error; the signer is not invoked and
\* no token is returned.
C9_Amended ==
    (/\ sign_pc # "idle"
     /\ UnparseableExpiresIn(sign_params)
     /\ ~Offending(sign_params)
     /\ ~Has(sign_params, "expiration_time"))
        => /\ sign_pc \in {"validated", "raised"}
           /\ sign_pc = "raised" => sign_err = err_str
           /\ signer_calls = <<>>
           /\ sign_token = NoToken

\* sign was called with expires_in 'asd' and otherwise valid claims, and raised
C9_Witness ==
    /\ sign_pc = "raised"
    /\ sign_params.expires_in = PyStr("asd")
    /\ sign_params.domain = PyStr("iq.wiki")
    /\ ~Has(sign_params, "expiration_time")
    /\ sign_err = err_str

\* the header lines of the grammar in their fixed order, each with the value
\* the body holds for it
HeaderOrder(body) ==
    <<<<"URI", body.uri>>,
      <<"Web3 Token Version", body.web3_token_version>>,
      <<"Chain ID", body.chain_id>>,
      <<"Nonce", body.nonce>>,
      <<"Issued At", IF Has(body, "issued_at") THEN IsoOf(body.issued_at) ELSE Absent>>,
      <<"Expiration Time",
        IF Has(body, "expiration_time") THEN IsoOf(body.expiration_time) ELSE Absent>>,
      <<"Not Before", IF Has(body, "not_before") THEN IsoOf(body.not_before) ELSE Absent>>,
      <<"Request ID", body.request_id>>>>

\* the lines of the header block: one per header that is set, in order
HeaderBlock(body) ==
    LET present == SelectSeq(HeaderOrder(body), LAMBDA h : h[2] # Absent)
    IN  [i \in 1..Len(present) |-> present[i][1] \o ": " \o Format(present[i][2])]

\* the lines of the grammar, which the text joins with line feeds; the
\* statement is written when `stated` holds
Grammar(body, stated) ==
    (IF Has(body, "domain") THEN <<body.domain.s \o Banner, "">> ELSE <<>>)
        \o (IF stated THEN <<body.statement.s, "">> ELSE <<>>)
        \o HeaderBlock(body)

\* build_message has returned: the signer was invoked with its text
Built == sign_pc \in {"awaiting", "returned"} \/ (sign_pc = "raised" /\ signer_calls # <<>>)

\* C10 as stated: build_message returns exactly the banner and a blank line if
\* domain is set, the statement and a blank line if statement is set, then the
\* headers in the fixed order, the three mandatory ones always and each other
\* one exactly when its claim is set, with no trailing blank line.
C10_AsStated ==
    Built => /\ sign_msg = Join(Grammar(sign_body, Has(sign_body, "statement")), "\n")
             /\ ~EndsWith(sign_msg, "\n")

\* C10 amended: as stated, except that the statement line and its blank line
\* are written exactly when statement is set to a non-empty text.
C10_Amended ==
    Built => /\ sign_msg =
                    Join(Grammar(sign_body, Has(sign_body, "statement")
                                               /\ sign_body.statement.s # ""), "\n")
             /\ \A i \in {2, 5, 6} : HeaderOrder(sign_body)[i][2] # Absent
             /\ ~EndsWith(sign_msg, "\n")

\* a message with every optional line was built
C10_Witness ==
    /\ sign_pc = "returned"
    /\ \A i \in 1..Len(ParamKeys) :
          ParamKeys[i] # "expires_in" => Has(sign_params, ParamKeys[i])
    /\ sign_params.statement = PyStr("Test")
    /\ Len(Split(sign_msg, "\n")) = 12

(***************************************************************************)
(* verify and decrypt (Spec).                                              *)
(***************************************************************************)
\* verify was called with the token sign returned
SignedVerify == v_entry = "verify" /\ sign_pc = "returned" /\ v_token = sign_token

\* the call has ended
Ended == v_pc \in {"raised", "returned"}

\* the claims mapping holds the value of every field the caller of sign set
Reproduces(params, claims) ==
    \A key \in {"domain", "statement", "uri", "chain_id", "request_id"} :
        Has(params, key) => DictHas(claims, key) /\ DictGet(claims, key) = Format(params[key])

\* C1: for every valid claims value and a deterministic signer,
\* verify(sign(signer, claims)) with no opts.domain succeeds while the token is
\* inside its validity window, returns the signer's lower-cased address, and
\* its claims mapping reproduces every field the claims set.
C1_RoundTrip ==
    (SignedVerify /\ v_opts = NoOpts /\ Ended)
        => \/ v_pc = "raised" /\ v_err \in {ExpiredErr, NotYetErr}
           \/ /\ v_pc = "returned"
              /\ v_result.address = Lower(SignerAddress)
              /\ Reproduces(sign_params, v_result.body)
              /\ Has(sign_params, "nonce") => DictHas(v_result.body, "nonce")

\* C2: every token produced by sign fails verify with 'Token expired' when its
\* expiration time is before the clock, with "It's not yet time to use the
\* token" when it is not expired and its not-before is after the clock, and is
\* not rejected on temporal grounds otherwise; both comparisons are strict.
C2_TemporalWindow ==
    (SignedVerify /\ Ended)
        => /\ v_pc = "raised" => v_err \in {ExpiredErr, NotYetErr, DomainMismatchErr}
           /\ (v_pc = "raised" /\ v_err = ExpiredErr)
                 => Len(v_reads) = 1 /\ sign_body.expiration_time.n < v_reads[1]
           /\ (v_pc = "raised" /\ v_err = NotYetErr)
                 => /\ Len(v_reads) = 2
                    /\ sign_body.expiration_time.n >= v_reads[1]
                    /\ Has(sign_body, "not_before")
                    /\ sign_body.not_before.n > v_reads[2]
           /\ (v_pc = "returned" \/ v_err = DomainMismatchErr)
                 => /\ Len(v_reads) >= 1
                    /\ sign_body.expiration_time.n >= v_reads[1]
                    /\ Has(sign_body, "not_before")
                          => Len(v_reads) = 2 /\ sign_body.not_before.n <= v_reads[2]

\* C3: for every otherwise valid token signed with domain D, verify fails with
\* 'Inappropriate token domain' whenever the caller supplies an opts.domain
\* that differs from D, and succeeds when opts.domain is not supplied or is D.
C3_DomainScoping ==
    (/\ SignedVerify
     /\ Has(sign_params, "domain")
     /\ Ended
     /\ ~(v_pc = "raised" /\ v_err \in {ExpiredErr, NotYetErr}))
        => IF Has(v_opts, "domain") /\ v_opts.domain # sign_params.domain
           THEN v_pc = "raised" /\ v_err = DomainMismatchErr
           ELSE v_pc = "returned"

\* the token is an envelope whose body holds the header line
\* 'Web3 Token Version: 1', a whole line of the body
TaggedVersion1(token) ==
    /\ token.b64 = "ok"
    /\ token.text.json = "object"
    /\ token.text.body.t = "str"
    /\ Contains("\n" \o token.text.body.s \o "\n", "\nWeb3 Token Version: 1\n")

SignatureErrors ==
    {UnparsableErr, EmptySignatureErr, "AttributeError: startswith",
     "ValueError: non-hexadecimal number found in fromhex() arg", "BadSignature"}

C5_Base64Failure ==
    (/\ v_pc # "idle"
     /\ \/ v_token.b64 \in {"invalid", "notutf8"}
        \/ v_token.b64 = "ok" /\ v_token.text.json = "empty")
        => /\ v_pc = "raised"
           /\ v_err = Base64Err
           /\ \A i \in 1..Len(v_reached) :
                 v_reached[i] \notin {"json.loads", "fromhex", "recover_message",
                                      "get_version"}

\* decrypt of a token that is no base64 raised the base64 error
C5_Witness ==
    /\ v_entry = "decrypt"
    /\ v_pc = "raised"
    /\ v_token.b64 = "invalid"
    /\ v_err = Base64Err
    /\ v_reached = <<"b64decode">>

(***************************************************************************)
(* The body parsers (SpecParse).                                           *)
(***************************************************************************)
\* parse_body and its helpers were called on hand-written lines
ParsedByHand == pb.pc = "parsed" /\ sign_pc = "idle"

RECURSIVE Concatenated(_)
\* the groups joined end to end
Concatenated(groups) ==
    IF groups = <<>> THEN <<>> ELSE Head(groups) \o Concatenated(Tail(groups))

\* C11: for every sequence of lines split_sections returns exactly
\* 1 + (number of empty lines) groups, no group holds an empty line, and the
\* groups joined in order are the non-empty lines in their original order.
C11_SplitSections ==
    pb.pc = "parsed"
        => /\ Len(pb.sections)
                 = 1 + Cardinality({i \in 1..Len(pb.lines) : pb.lines[i] = ""})
           /\ \A g \in 1..Len(pb.sections) :
                 \A i \in 1..Len(pb.sections[g]) : pb.sections[g][i] # ""
           /\ Concatenated(pb.sections) = SelectSeq(pb.lines, LAMBDA l : l # "")

\* lines that begin with two blank lines and end with one were split in four
\* groups, the third holding the one line of text
C11_Witness ==
    /\ ParsedByHand
    /\ pb.lines = <<"", "", "Test", "">>
    /\ pb.sections = <<(<<>>), (<<>>), <<"Test">>, (<<>>)>>

(***************************************************************************)
(* decrypt and the order of verify (Spec).                                 *)
(***************************************************************************)
\* the token decodes to text that is no record with a body and a signature
\* field: text json.loads rejects, a list, a scalar, a record lacking a field
NoEnvelope(token) ==
    /\ token.b64 = "ok"
    /\ \/ token.text.json \in {"garbage", "array", "scalar"}
       \/ /\ token.text.json = "object"
          /\ token.text.body = Absent \/ token.text.signature = Absent

\* C12: for every token whose decoded text is not a record carrying both a
\* body and a signature field, decrypt (and verify through it) fails with
\* 'Token malformed (unparsable JSON)' and with no other kind of error.
C12_UnparseableRecord ==
    (v_pc # "idle" /\ NoEnvelope(v_token))
        => v_pc = "raised" /\ v_err = UnparsableErr

\* the token is an envelope with a non-empty body and signature whose body
\* holds no version tag
Untagged(token) ==
    /\ token.b64 = "ok"
    /\ token.text.json = "object"
    /\ token.text.body.t = "str" /\ token.text.body.s # ""
    /\ Truthy(token.text.signature)
    /\ get_version(token.text.body.s).raised

\* C13 as stated: decrypt extracts the version tag before it invokes the
\* address recovery; for every envelope with non-empty body and signature
\* whose body has no version tag, decrypt fails with 'Token malformed
\* (missing version)' whatever the signature is, and the recovery is not
\* invoked.
C13_AsStated ==
    (v_pc # "idle" /\ Untagged(v_token))
        => /\ v_pc = "raised"
           /\ v_err = MissingVersionErr
           /\ \A i \in 1..Len(v_reached) : v_reached[i] # "recover_message"

\* C13 amended: decrypt turns the signature into bytes and invokes the address
\* recovery before it extracts the version tag; for every envelope with
\* non-empty body and signature whose body has no version tag, decrypt fails
\* with 'Token malformed (missing version)' when the signature is hex text
\* from which the recovery gives an address, the recovery having been invoked
\* by then; otherwise it fails with the error of the signature and the
\* version is not looked for.
C13_Amended ==
    (v_pc # "idle" /\ Untagged(v_token))
        => /\ v_pc = "raised"
           /\ \/ /\ v_err = MissingVersionErr
                 /\ v_reached = <<"b64decode", "json.loads", "fromhex",
                                  "recover_message", "get_version">>
                 /\ ~fromhex(StripHexPrefix(v_token.text.signature.s)).raised
              \/ /\ v_err \in SignatureErrors \ {UnparsableErr, EmptySignatureErr}
                 /\ \A i \in 1..Len(v_reached) : v_reached[i] # "get_version"

\* decrypt of an envelope whose body is a banner and lower-case headers with no
\* version tag, signed by some account, raised the missing-version error
C13_Witness ==
    /\ v_entry = "decrypt"
    /\ v_pc = "raised"
    /\ v_err = MissingVersionErr
    /\ Untagged(v_token)
    /\ v_token.text.signature = PyStr("0xdead")
    /\ Contains(v_token.text.body.s, Banner)
    /\ v_reached[4] = "recover_message"

\* the stages of verify in the order the claim gives them, unwrap being the
\* five steps of decrypt
Stages ==
    <<"b64decode", "json.loads", "fromhex", "recover_message", "get_version",
      "version", "parse_body", "expiry", "not_before", "domain">>

\* the errors each stage of verify fails with
StageErrors ==
    [s \in {Stages[i] : i \in 1..Len(Stages)} |->
        CASE s = "version"    -> {UnsupportedVersionErr}
          [] s = "parse_body" -> {DamagedErr, "IndexError: list index out of range"}
          [] s = "expiry"     -> {ExpiredErr, IsoformatErr, AwareErr}
          [] s = "not_before" -> {NotYetErr, IsoformatErr, AwareErr}
          [] s = "domain"     -> {DomainMismatchErr}
          [] OTHER            -> {Base64Err, UnparsableErr, EmptyMessageErr,
                                  EmptySignatureErr, MissingVersionErr,
                                  "TypeError: indices must be integers",
                                  "TypeError: encode_defunct"} \cup SignatureErrors]

\* the stage of verify was evaluated
Reached(stage) == \E i \in 1..Len(v_reached) : v_reached[i] = stage

\* the checks passed by a call that went beyond each stage: the version is
\* not 1, the body parses, the expiry is not before the clock value read for
\* it, the not-before (if any) is not after the clock value read for it, the
\* domain asked for (if any) is the token's
PassedVersion == v_dec.version # 1
PassedParse   == ~parse_body(Split(v_dec.body, "\n")).raised
PassedExpiry  ==
    /\ Len(v_reads) >= 1
    /\ fromisoformat(DictGet(v_parsed, "expiration_time")).t >= v_reads[1]
PassedNotBefore ==
    Truthy(PyStr(IF DictHas(v_parsed, "not_before")
                 THEN DictGet(v_parsed, "not_before") ELSE ""))
        => /\ Len(v_reads) = 2
           /\ fromisoformat(DictGet(v_parsed, "not_before")).t <= v_reads[2]
PassedDomain ==
    Truthy(Get(v_opts, "domain"))
        => DictHas(v_parsed, "domain") /\ DictGet(v_parsed, "domain") = v_opts.domain.s

\* C14: verify evaluates unwrap, the version check, the body parse, the expiry
\* check, the not-before check and the domain check in this order, fails with
\* the error of the first stage that fails and evaluates nothing after it, and
\* returns a result only if every stage passed.
C14_Pipeline ==
    v_entry = "verify"
        => /\ Len(v_reached) <= Len(Stages)
           /\ \A i \in 1..Len(v_reached) : v_reached[i] = Stages[i]
           /\ v_pc = "raised"
                 => IF v_reached = <<>> THEN v_err = RequiredErr
                    ELSE v_err \in StageErrors[v_reached[Len(v_reached)]]
           /\ (v_pc = "raised" /\ Reached("version") /\ v_dec.version = 1)
                 => v_err = UnsupportedVersionErr
           /\ Reached("parse_body") => PassedVersion
           /\ Reached("expiry") => PassedVersion /\ PassedParse
           /\ (v_pc = "raised" /\ v_err = ExpiredErr)
                 => v_reached[Len(v_reached)] = "expiry"
           /\ Reached("not_before") => PassedExpiry
           /\ Reached("domain") => PassedExpiry /\ PassedNotBefore
           /\ v_pc = "returned"
                 => /\ v_reached = Stages
                    /\ PassedVersion /\ PassedParse /\ PassedExpiry
                    /\ PassedNotBefore /\ PassedDomain
                    /\ v_result = [address |-> v_dec.address, body |-> v_parsed]

\* verify of an expired hand-written token, called with a domain the token
\* does not name, raised 'Token expired' at the expiry stage
C14_Witness ==
    /\ v_entry = "verify"
    /\ v_pc = "raised"
    /\ v_err = ExpiredErr
    /\ v_opts = [domain |-> PyStr("other.domain")]
    /\ DictHas(v_parsed, "domain") /\ DictGet(v_parsed, "domain") = "iq.wiki"
    /\ v_reached = SubSeq(Stages, 1, 8)

(***************************************************************************)
(* parse_body on hand-written and on built messages (SpecParse).           *)
(***************************************************************************)
\* C15: for every body text that reaches the parse stage, with any number and
\* placement of blank lines, parse_body either returns a claims mapping or
\* fails with 'Decrypted body is damaged'; extract_token_domain and
\* extract_token_statement never fail with any other error.
C15_ParseErrors ==
    pb.pc = "parsed"
        => /\ ~pb.statement.raised
           /\ pb.top.raised => pb.top.err = DamagedErr
           /\ pb.ns.raised => pb.ns.err = DamagedErr

\* parse_body and its helpers were called on the lines of a message
\* build_message made
ParsedBuilt == pb.pc = "parsed" /\ sign_pc # "idle"

\* the mapping holds the three required claims under their snake keys
HasRequiredClaims(claims) ==
    \A key \in {"web3_token_version", "issued_at", "expiration_time"} :
        DictHas(claims, key)

\* the header lines of the last group, their keys lower-cased and hyphenated,
\* lack one of the three required headers
LacksRequired(sections) ==
    \E i \in 1..Len(required_fields) :
        \A j \in 1..Len(sections[Len(sections)]) :
            ~StartsWith(Replace(Lower(sections[Len(sections)][j]), " ", "-"),
                        required_fields[i] \o ":")

\* C16: for a body whose last group holds the header lines as build_message
\* writes them, parse_body passes the required-header check and returns a
\* mapping with the keys web3_token_version, issued_at and expiration_time;
\* for a body whose last group lacks any of the three headers (and whose
\* groups each hold a line where the statement is looked for), parse_body
\* fails with 'Decrypted body is damaged'.
C16_HeaderNormalisation ==
    /\ ParsedBuilt
          => /\ ~pb.top.raised /\ HasRequiredClaims(pb.top.value)
             /\ ~pb.ns.raised /\ HasRequiredClaims(pb.ns.value)
    /\ (ParsedByHand /\ LacksRequired(pb.sections) /\ ~pb.statement.raised)
          => /\ pb.top.raised /\ pb.top.err = DamagedErr
             /\ pb.ns.raised /\ pb.ns.err = DamagedErr

\* the key/value pairs of a dict
Items(d) == {d[i] : i \in 1..Len(d)}

\* C17: for every sequence of lines, parse_body of verify.py and parse_body of
\* web3_signer/verify.py either both fail or both return the same key/value
\* mapping, also when the header block holds a space-separated key and its
\* hyphenated form at once.
C17_SameParsers ==
    pb.pc = "parsed"
        => /\ pb.top.raised = pb.ns.raised
           /\ pb.top.raised => pb.top.err = pb.ns.err
           /\ ~pb.top.raised => Items(pb.top.value) = Items(pb.ns.value)

\* C18: for every message build_message renders from claims validate_params
\* accepts, extract_token_domain returns a domain only if a domain claim was
\* given to sign, and then that domain; no statement and no header value is
\* reported as the domain.
C18_NoPhantomDomain ==
    ParsedBuilt
        => pb.domain = IF Has(sign_params, "domain") THEN sign_params.domain ELSE None

\* C19: for every token sign produces from claims validate_params accepts,
\* get_version on the token body returns 2 whatever the values of uri,
\* statement, request_id and the other claims, and verify never rejects the
\* token as an unsupported version.
C19_VersionIntegrity ==
    (sign_pc = "returned" /\ v_pc # "idle" /\ v_token = sign_token)
        => /\ Reached("get_version")
           /\ ~(v_pc = "raised" /\ v_err \in {MissingVersionErr, UnsupportedVersionErr})
           /\ v_pc # "raised" => v_dec.version = 2
           /\ Reached("version") => v_dec.version = 2

(***************************************************************************)
(* The validity window (Spec).                                             *)
(***************************************************************************)
\* the claims mapping names a not-before instant later than its expiry
EmptyWindow(claims) ==
    /\ DictHas(claims, "not_before")
    /\ fromisoformat(DictGet(claims, "not_before")).ok
    /\ fromisoformat(DictGet(claims, "expiration_time")).ok
    /\ fromisoformat(DictGet(claims, "not_before")).t
          > fromisoformat(DictGet(claims, "expiration_time")).t

\* C20: no token whose not_before is later than its expiration_time is ever
\* accepted by verify, at any clock value and however the clock advances
\* between the two clock reads of verify; whenever verify returns a result,
\* the token's not-before, if present, is not later than its expiry.
C20_EmptyWindowRejected ==
    /\ (SignedVerify /\ Has(sign_body, "not_before")
          /\ sign_body.not_before.n > sign_body.expiration_time.n)
          => v_pc # "returned"
    /\ (v_entry = "verify" /\ v_pc = "returned") => ~EmptyWindow(v_result.body)
====
